---- MODULE Spec2Model ----
(***************************************************************************)
(* Model of the metronome's audio scheduling core, AudioEngine            *)
(* (src/services/AudioEngine.ts), and of the host event loop it runs on.  *)
(*                                                                         *)
(* Time is counted in ticks of 25 ms, the engine's poll interval           *)
(* (lookahead = 25.0 ms).  One clock serves the audio clock                *)
(* (audioCtx.currentTime) and the host's timer clock; it advances by the   *)
(* action Tick independently of the event loop, so a timer may fire        *)
(* arbitrarily late.  60.0 / bpm is exact in ticks for the tempos of       *)
(* Tempos (2400 ticks per minute), so floating-point rounding is not       *)
(* modelled.  A call of the engine runs to completion at one clock         *)
(* reading (the host is single-threaded).                                  *)
(*                                                                         *)
(* Spec is the engine under any sequence of start(), stop(), setParams()   *)
(* and timer firings; SpecRun is one run of it, over a longer time.        *)
(***************************************************************************)
EXTENDS Integers, Sequences, FiniteSets, TLC

\* ------------------------------------------------------------------ bounds
\* Spec: start() is called at most MaxStarts times, the clock runs to MaxClock.
MaxStarts == 2
MaxClock == 11
\* SpecRun: one run, the clock runs to MaxRunClock.
MaxRunClock == 21
\* SpecDecode: setCustomSounds() is called at most MaxSoundCalls times.
MaxSoundCalls == 2
\* SpecSounds: setCustomSounds() is called at most MaxRunSoundCalls times, the
\* clock runs to MaxSoundClock.
MaxRunSoundCalls == 1
MaxSoundClock == 9
\* SpecFaults: the clock runs to MaxFaultClock.
MaxFaultClock == 9
\* SpecApi: start() and setCustomSounds() are called at most MaxApiCalls times
\* together, the clock runs to MaxApiClock.
MaxApiCalls == 2
MaxApiClock == 1
\* SpecApp: the clock runs to MaxAppClock.
MaxAppClock == 12
\* SpecLive: the clock runs to MaxLiveClock; beats up to MaxLiveBeat are
\* followed.
MaxLiveClock == 19
MaxLiveBeat == 2

\* --------------------------------------------------------------- constants
\* lookahead = 25.0 ms: one tick.
lookahead == 1
\* scheduleAheadTime = 0.1 s.
scheduleAheadTime == 4
\* the startup offset 0.05 s of start().
StartOffset == 2
\* 60.0 seconds, in ticks.
TicksPerMinute == 2400
\* the "accents disabled" value the app passes as beatsPerMeasure.
AccentOff == 99999

\* Tempos (within [1,240]) whose beat period is a whole number of ticks.
Tempos == {240, 200}
FastestTempo == 240
Measures == {2, AccentOff}
Profiles == {"Digital", "Custom"}
\* onBeat: absent (undefined) until setParams() installs the app's callback.
NoCallback == "undefined"
Callbacks == {"cb"}
\* timerID = null
Null == 0
\* no note, no notification
None == [beat |-> -1]
\* customAccentBuffer / customBeatBuffer = null
NoBuffer == [decodedFrom |-> <<"nothing", 0>>]
\* accentData / beatData = null
NoData == <<"null", 0>>
\* the sound data given to the k-th call of setCustomSounds()
AccentData(k) == <<"accent", k>>
BeatData(k) == <<"beat", k>>
\* no call of setCustomSounds()
NoCall == [id |-> 0]
\* the callback the app installs: (beat) => setCurrentBeat(beat)
AppCallback == "setCurrentBeat"

\* The dial (MetronomeDial.tsx): MIN_BPM, MAX_BPM and BPM_RANGE.
MIN_BPM == 1
MAX_BPM == 240
BPM_RANGE == MAX_BPM - MIN_BPM
\* Tempo changes of one drag event, in bpm: a pointer move turns the dial by
\* at most 180 degrees, DEG_PER_BPM = 1.5 degrees to the bpm.
DragChanges == {-120, 120}
\* Angles of a tap on the dial, in degrees from the top.
Angles == {0, 180}

\* JavaScript's NaN, represented by a number that no computation of the model
\* yields; the operators below treat it as JavaScript does.
NaN == -1000000

\* The item 'metronome_bpm' of localStorage when the app is mounted: absent
\* (getItem() returns null) or a string, written as its characters.  "120" is
\* what the app itself writes for 120 bpm; the other strings are content it
\* does not write but restores if it finds it.
NoItem == [present |-> FALSE, text |-> <<>>]
Item(text) == [present |-> TRUE, text |-> text]
Saved ==
    {NoItem, Item(<<>>), Item(<<"1", "2", "0">>), Item(<<"3", "0", "0">>),
     Item(<<"0">>), Item(<<"-", "5">>), Item(<<"x">>)}

VARIABLES
    audioCtx,          \* BOOLEAN: the AudioContext has been created
    now,               \* audioCtx.currentTime, and the host clock, in ticks
    nextNoteTime,
    timerID,
    bpm,
    beatsPerMeasure,
    currentBeat,
    profile,
    onBeat,
    timers,            \* the host's pending timers, in the order they were armed
    customAccentBuffer,
    customBeatBuffer,
    decoding,          \* the calls of setCustomSounds() suspended at an await, in
                       \* the order they were made
    \* the app (App.tsx)
    isPlaying,
    displayBeat,       \* the app's currentBeat state, the beat it displays
    ui,                \* the app's settings: bpm, signature, accent, profile
    updates,           \* the updateEngine() runs suspended at await setCustomSounds()
    \* history (not read by the engine)
    contexts,          \* number of AudioContext objects the engine has constructed
    running,           \* the caller's view: start() was the last of start()/stop()
    starts,            \* number of start() calls so far
    restarted,         \* the current run began by a start() right after a stop()
    justStopped,       \* the last step was stop()
    tempoHeld,         \* no setParams() changed the tempo since the last start()
    prevNote,          \* the last note handed to the renderer before the last step,
                       \* since the last start()/stop(); None if there is none
    emitted,           \* the notes handed to the renderer by the last step
    lastTime,          \* the target time of the last note handed to the renderer
                       \* before the last step, in any run; -1 if there is none
    requested,         \* the arguments of the last setParams() call (the
                       \* constructor's values if there is none)
    soundCalls,        \* number of setCustomSounds() calls so far
    lastSounds,        \* the arguments of the last setCustomSounds() call
    settled,           \* the last setCustomSounds() call that completed, or NoCall
    renderFailed,      \* the last step was a poll in which rendering a beat raised
    fired              \* the beat notification run by the last step, or None:
                       \* its beat index, whether it was armed before the last
                       \* start() (stale), whether it ran while one armed before
                       \* it was pending (overtook), its note's target time,
                       \* whether the invocation raised (threw)

soundVars == <<customAccentBuffer, customBeatBuffer, decoding, soundCalls, lastSounds, settled>>
appVars == <<isPlaying, displayBeat>>
uiVars == <<ui, updates>>

vars == <<audioCtx, now, nextNoteTime, timerID, bpm, beatsPerMeasure, currentBeat,
          profile, onBeat, timers, soundVars, appVars, uiVars,
          contexts, running, starts, restarted, justStopped, tempoHeld, prevNote, emitted, lastTime,
          requested, renderFailed, fired>>

\* ----------------------------------------------------------- the host
\* A pending timer: kind "poll" runs this.scheduler(), kind "beat" runs
\* this.onBeat!(beat).  id is the handle setTimeout returned (kept by the
\* engine for polls only; 0 for beat timers, whose handle is dropped).
\* stale (history) marks a timer armed before the last start(); time (history)
\* is the target time of the note a beat timer was armed for.
PollTimer(id, due, stale) ==
    [kind |-> "poll", id |-> id, due |-> due, beat |-> -1, stale |-> stale, time |-> -1]
BeatTimer(due, beat, time) ==
    [kind |-> "beat", id |-> 0, due |-> due, beat |-> beat, stale |-> FALSE, time |-> time]

Remove(s, i) == [j \in 1..(Len(s) - 1) |-> IF j < i THEN s[j] ELSE s[j + 1]]
Last(s) == s[Len(s)]

\* A handle the host has not handed out before.  The engine only ever
\* compares handles for equality (clearTimeout), so the least handle that is
\* neither pending nor held in timerID stands for it.
FreshId(ts, held) ==
    CHOOSE id \in 1..(Len(ts) + 2) :
        /\ id # held
        /\ \A i \in 1..Len(ts) : ts[i].id # id
        /\ \A k \in 1..(id - 1) : k = held \/ \E i \in 1..Len(ts) : ts[i].id = k

\* The host runs its timers in order of due time, and in the order they
\* were armed among timers due at the same time; none runs before it is due.
CanFire(i) ==
    /\ timers[i].due <= now
    /\ \A j \in 1..Len(timers) :
           \/ timers[j].due > timers[i].due
           \/ (timers[j].due = timers[i].due /\ j >= i)

\* ----------------------------------------------------------- the engine
\* The fields the scheduler writes, as one record threaded through
\* scheduler(), scheduleNote() and nextNote(); notes collects the notes
\* handed to the renderer by the call.
\* late (history): how long after it fell due the poll making the call ran
\* (0 for a call made by start()).
Engine(late) ==
    [nextNoteTime |-> nextNoteTime, currentBeat |-> currentBeat, timerID |-> timerID,
     timers |-> timers, audioCtx |-> audioCtx, contexts |-> contexts,
     notes |-> <<>>, late |-> late]

Max(a, b) == IF a >= b THEN a ELSE b

\* const secondsPerBeat = 60.0 / this.bpm
SecondsPerBeat(b) == TicksPerMinute \div b

\* Variant: beats are counted from one when the accent is decided.
IsAccentOneBased(beatNumber, perMeasure) == (beatNumber + 1) % perMeasure = 0

\* const isAccent = beatNumber % this.beatsPerMeasure === 0
IsAccent(beatNumber, perMeasure) == beatNumber % perMeasure = 0

\* playDigital(): one oscillator, at the higher frequency for an accent.
playDigital(isAccent) ==
    <<[kind |-> "digital", buffer |-> NoBuffer, freq |-> IF isAccent THEN 1000 ELSE 600]>>

\* Variant: a custom beat whose buffer is absent is not rendered.
renderNoFallback(isAccent) ==
    IF profile = "Custom"
    THEN LET buffer == IF isAccent THEN customAccentBuffer ELSE customBeatBuffer
         IN  IF buffer # NoBuffer
             THEN <<[kind |-> "custom", buffer |-> buffer, freq |-> 0]>>
             ELSE <<>>
    ELSE playDigital(isAccent)

\* The switch of scheduleNote(): the sources started for one beat, in order.
render(isAccent) ==
    IF profile = "Custom"
    THEN LET buffer == IF isAccent THEN customAccentBuffer ELSE customBeatBuffer
         IN  IF buffer # NoBuffer
             THEN <<[kind |-> "custom", buffer |-> buffer, freq |-> 0]>>
             ELSE playDigital(isAccent)
    ELSE playDigital(isAccent)

\* Variant: the beat notification is armed with no delay, at schedule time.
scheduleNoteNotifyNow(e) ==
    IF ~e.audioCtx THEN e
    ELSE LET beatNumber == e.currentBeat
             time == e.nextNoteTime
             note == [beat |-> beatNumber, time |-> time, at |-> now,
                      bpm |-> bpm, perMeasure |-> beatsPerMeasure,
                      isAccent |-> IsAccent(beatNumber, beatsPerMeasure),
                      sounds |-> render(IsAccent(beatNumber, beatsPerMeasure)),
                      late |-> e.late]
         IN  IF onBeat # NoCallback
             THEN [e EXCEPT !.notes = Append(@, note),
                            !.timers = Append(@, BeatTimer(now, beatNumber, time))]
             ELSE [e EXCEPT !.notes = Append(@, note)]

\* scheduleNote(this.currentBeat, this.nextNoteTime): renders the beat and,
\* when a callback is installed, arms the beat notification timer.
scheduleNote(e) ==
    IF ~e.audioCtx THEN e
    ELSE LET beatNumber == e.currentBeat
             time == e.nextNoteTime
             note == [beat |-> beatNumber, time |-> time, at |-> now,
                      bpm |-> bpm, perMeasure |-> beatsPerMeasure,
                      isAccent |-> IsAccent(beatNumber, beatsPerMeasure),
                      sounds |-> render(IsAccent(beatNumber, beatsPerMeasure)),
                      late |-> e.late]
             delay == time - now
         IN  IF onBeat # NoCallback
             THEN [e EXCEPT !.notes = Append(@, note),
                            !.timers = Append(@, BeatTimer(now + Max(0, delay), beatNumber, time))]
             ELSE [e EXCEPT !.notes = Append(@, note)]

\* Variant: the beat counter is not advanced.
nextNoteNoCount(e) ==
    [e EXCEPT !.nextNoteTime = @ + SecondsPerBeat(bpm)]

\* Variant: the next beat is timed from the clock reading of the poll, not
\* from the beat before it.
nextNoteFromClock(e) ==
    [e EXCEPT !.nextNoteTime = now + SecondsPerBeat(bpm),
              !.currentBeat = @ + 1]

nextNote(e) ==
    [e EXCEPT !.nextNoteTime = @ + SecondsPerBeat(bpm),
              !.currentBeat = @ + 1]

\* Variant: a beat falling exactly on the end of the window is scheduled too.
RECURSIVE schedulerLoopInclusive(_)
schedulerLoopInclusive(e) ==
    IF e.nextNoteTime <= now + scheduleAheadTime
    THEN schedulerLoopInclusive(nextNote(scheduleNote(e)))
    ELSE e

RECURSIVE schedulerLoop(_)
schedulerLoop(e) ==
    IF e.nextNoteTime < now + scheduleAheadTime
    THEN schedulerLoop(nextNote(scheduleNote(e)))
    ELSE e

\* Variant: the poll is re-armed after the schedule-ahead window instead of
\* the poll interval.
schedulerSlowPoll(e, stale) ==
    IF ~e.audioCtx THEN e
    ELSE LET r == schedulerLoop(e)
             id == FreshId(r.timers, r.timerID)
         IN  [r EXCEPT !.timerID = id,
                       !.timers = Append(@, PollTimer(id, now + scheduleAheadTime, stale))]

\* Variant: the poll is not re-armed.
schedulerNoRearm(e, stale) ==
    IF ~e.audioCtx THEN e
    ELSE [schedulerLoop(e) EXCEPT !.timerID = Null]

\* Variant: the poll is re-armed twice.
schedulerRearmsTwice(e, stale) ==
    IF ~e.audioCtx THEN e
    ELSE LET r == schedulerLoop(e)
             id == FreshId(r.timers, r.timerID)
             again == Append(r.timers, PollTimer(id, now + lookahead, stale))
             id2 == FreshId(again, id)
         IN  [r EXCEPT !.timerID = id2,
                       !.timers = Append(again, PollTimer(id2, now + lookahead, stale))]

\* scheduler(): the loop, then the poll is re-armed and its handle kept.
\* stale: the call comes from a poll chain begun before the last start().
scheduler(e, stale) ==
    IF ~e.audioCtx THEN e
    ELSE LET r == schedulerLoop(e)
             id == FreshId(r.timers, r.timerID)
         IN  [r EXCEPT !.timerID = id,
                       !.timers = Append(@, PollTimer(id, now + lookahead, stale))]

\* Variant: a context is constructed at every call.
initAudioAlwaysNew(e) == [e EXCEPT !.audioCtx = TRUE, !.contexts = @ + 1]

\* initAudio(): the context is constructed if there is none yet (and resumed
\* if suspended).
initAudio(e) ==
    IF ~e.audioCtx THEN [e EXCEPT !.audioCtx = TRUE, !.contexts = @ + 1] ELSE e

start(e) ==
    scheduler([initAudio(e) EXCEPT !.currentBeat = 0,
                                   !.nextNoteTime = now + StartOffset], FALSE)

\* Variant: stop() on an engine with no poll handle starts the scheduler.
stopRestarts(e) ==
    IF e.timerID # Null
    THEN [e EXCEPT !.timers = SelectSeq(@, LAMBDA t : t.id # e.timerID),
                   !.timerID = Null, !.currentBeat = 0]
    ELSE scheduler([e EXCEPT !.currentBeat = 0], FALSE)

\* stop(): clearTimeout(this.timerID) cancels the pending timer of that handle.
stop(e) ==
    LET cleared == IF e.timerID # Null
                   THEN [e EXCEPT !.timers = SelectSeq(@, LAMBDA t : t.id # e.timerID),
                                  !.timerID = Null]
                   ELSE e
    IN  [cleared EXCEPT !.currentBeat = 0]

Install(e) ==
    /\ audioCtx' = e.audioCtx
    /\ contexts' = e.contexts
    /\ nextNoteTime' = e.nextNoteTime
    /\ currentBeat' = e.currentBeat
    /\ timerID' = e.timerID
    /\ timers' = e.timers

MarkStale(ts) == [i \in 1..Len(ts) |-> [ts[i] EXCEPT !.stale = TRUE]]

Init ==
    /\ audioCtx = FALSE
    /\ now = 0
    /\ nextNoteTime = 0
    /\ timerID = Null
    /\ bpm = 100
    /\ beatsPerMeasure = 4
    /\ currentBeat = 0
    /\ profile = "Digital"
    /\ onBeat = NoCallback
    /\ timers = <<>>
    /\ customAccentBuffer = NoBuffer
    /\ customBeatBuffer = NoBuffer
    /\ decoding = <<>>
    /\ isPlaying = FALSE
    /\ displayBeat = 0
    /\ ui = [mounted |-> FALSE, bpm |-> 60, beats |-> 4, accentOn |-> TRUE,
             profile |-> "Digital"]
    /\ updates = <<>>
    /\ contexts = 0
    /\ requested = [bpm |-> 100, beatsPerMeasure |-> 4, profile |-> "Digital"]
    /\ soundCalls = 0
    /\ lastSounds = NoCall
    /\ settled = NoCall
    /\ renderFailed = FALSE
    /\ running = FALSE
    /\ starts = 0
    /\ restarted = FALSE
    /\ justStopped = FALSE
    /\ tempoHeld = TRUE
    /\ prevNote = None
    /\ emitted = <<>>
    /\ lastTime = -1
    /\ fired = None

\* The history of a step that hands no note to the renderer and runs no
\* notification.
Quiet ==
    /\ justStopped' = FALSE
    /\ prevNote' = IF emitted = <<>> THEN prevNote ELSE Last(emitted)
    /\ lastTime' = IF emitted = <<>> THEN lastTime ELSE Last(emitted).time
    /\ emitted' = <<>>
    /\ fired' = None
    /\ renderFailed' = FALSE

\* start().  The clock of the context starts at the model's time 0.
EngineStart ==
    /\ starts < MaxStarts
    /\ starts' = starts + 1
    /\ LET r == start([Engine(0) EXCEPT !.timers = MarkStale(@)])
       IN  /\ Install(r)
           /\ emitted' = r.notes
    /\ prevNote' = None
    /\ lastTime' = IF emitted = <<>> THEN lastTime ELSE Last(emitted).time
    /\ running' = TRUE
    /\ restarted' = justStopped
    /\ justStopped' = FALSE
    /\ tempoHeld' = TRUE
    /\ fired' = None
    /\ renderFailed' = FALSE
    /\ UNCHANGED <<now, bpm, beatsPerMeasure, profile, onBeat, soundVars, requested>>

Start == EngineStart /\ UNCHANGED <<appVars, uiVars>>

\* Variant: stop() puts the tempo back to the constructor's.
EngineStopResetsTempo ==
    /\ Install(stop(Engine(0)))
    /\ bpm' = 100
    /\ running' = FALSE
    /\ justStopped' = TRUE
    /\ prevNote' = None
    /\ lastTime' = IF emitted = <<>> THEN lastTime ELSE Last(emitted).time
    /\ emitted' = <<>>
    /\ fired' = None
    /\ renderFailed' = FALSE
    /\ UNCHANGED <<now, beatsPerMeasure, profile, onBeat, soundVars, requested,
                   starts, restarted, tempoHeld>>

\* stop()
EngineStop ==
    /\ Install(stop(Engine(0)))
    /\ running' = FALSE
    /\ justStopped' = TRUE
    /\ prevNote' = None
    /\ lastTime' = IF emitted = <<>> THEN lastTime ELSE Last(emitted).time
    /\ emitted' = <<>>
    /\ fired' = None
    /\ renderFailed' = FALSE
    /\ UNCHANGED <<now, bpm, beatsPerMeasure, profile, onBeat, soundVars, requested,
                   starts, restarted, tempoHeld>>

Stop == EngineStop /\ UNCHANGED <<appVars, uiVars>>

\* Variant: a tempo change re-times the beat that is waiting to be scheduled.
SetParamsRetroactive(b, m, p, cb) ==
    /\ bpm' = b
    /\ beatsPerMeasure' = m
    /\ profile' = p
    /\ onBeat' = cb
    /\ nextNoteTime' = nextNoteTime - SecondsPerBeat(bpm) + SecondsPerBeat(b)
    /\ requested' = [bpm |-> b, beatsPerMeasure |-> m, profile |-> p]
    /\ tempoHeld' = (tempoHeld /\ b = bpm)
    /\ Quiet
    /\ UNCHANGED <<audioCtx, contexts, now, timerID, currentBeat, timers, soundVars, appVars, uiVars,
                   running, starts, restarted>>

\* Variant: the profile of the call is not taken over.
SetParamsKeepsProfile(b, m, p, cb) ==
    /\ bpm' = b
    /\ beatsPerMeasure' = m
    /\ profile' = profile
    /\ onBeat' = cb
    /\ requested' = [bpm |-> b, beatsPerMeasure |-> m, profile |-> p]
    /\ tempoHeld' = (tempoHeld /\ b = bpm)
    /\ Quiet
    /\ UNCHANGED <<audioCtx, contexts, now, nextNoteTime, timerID, currentBeat, timers,
                   soundVars, appVars, uiVars, running, starts, restarted>>

\* setParams(bpm, beatsPerMeasure, profile, onBeat)
EngineSetParams(b, m, p, cb) ==
    /\ bpm' = b
    /\ beatsPerMeasure' = m
    /\ profile' = p
    /\ onBeat' = cb
    /\ requested' = [bpm |-> b, beatsPerMeasure |-> m, profile |-> p]
    /\ tempoHeld' = (tempoHeld /\ b = bpm)
    /\ Quiet
    /\ UNCHANGED <<audioCtx, contexts, now, nextNoteTime, timerID, currentBeat, timers,
                   soundVars, running, starts, restarted>>

SetParams(b, m, p, cb) == EngineSetParams(b, m, p, cb) /\ UNCHANGED <<appVars, uiVars>>

\* A poll timer fires: scheduler() runs and re-arms itself.
Poll(i) ==
    /\ timers[i].kind = "poll"
    /\ CanFire(i)
    /\ LET r == scheduler([Engine(now - timers[i].due) EXCEPT !.timers = Remove(@, i)],
                           timers[i].stale)
       IN  /\ Install(r)
           /\ emitted' = r.notes
    /\ prevNote' = IF emitted = <<>> THEN prevNote ELSE Last(emitted)
    /\ lastTime' = IF emitted = <<>> THEN lastTime ELSE Last(emitted).time
    /\ justStopped' = FALSE
    /\ fired' = None
    /\ renderFailed' = FALSE
    /\ UNCHANGED <<now, bpm, beatsPerMeasure, profile, onBeat, soundVars, appVars, uiVars,
                   requested, running, starts, restarted, tempoHeld>>

\* A poll timer fires and a call of the audio API made by scheduleNote() for
\* the first beat of the poll raises: neither scheduleNote() nor scheduler()
\* catches it, so it leaves scheduler() before nextNote() and before the poll
\* is re-armed.  The beat is taken not to have been handed to the renderer.
PollRenderFails(i) ==
    /\ timers[i].kind = "poll"
    /\ CanFire(i)
    /\ audioCtx
    /\ nextNoteTime < now + scheduleAheadTime
    /\ timers' = Remove(timers, i)
    /\ justStopped' = FALSE
    /\ prevNote' = IF emitted = <<>> THEN prevNote ELSE Last(emitted)
    /\ lastTime' = IF emitted = <<>> THEN lastTime ELSE Last(emitted).time
    /\ emitted' = <<>>
    /\ fired' = None
    /\ renderFailed' = TRUE
    /\ UNCHANGED <<audioCtx, contexts, now, nextNoteTime, timerID, bpm, beatsPerMeasure,
                   currentBeat, profile, onBeat, soundVars, appVars, uiVars,
                   requested, running, starts, restarted, tempoHeld>>

\* A beat notification timer fires: this.onBeat!(beatNumber), with the
\* callback installed at that moment; calling undefined raises a TypeError.
\* The app's callback is (beat) => setCurrentBeat(beat).
Notify(i) ==
    /\ timers[i].kind = "beat"
    /\ CanFire(i)
    /\ timers' = Remove(timers, i)
    /\ fired' = [beat |-> timers[i].beat, stale |-> timers[i].stale,
                 overtook |-> \E j \in 1..(i - 1) : timers[j].kind = "beat",
                 time |-> timers[i].time,
                 threw |-> (onBeat = NoCallback)]
    /\ displayBeat' = IF onBeat = AppCallback THEN timers[i].beat ELSE displayBeat
    /\ justStopped' = FALSE
    /\ prevNote' = IF emitted = <<>> THEN prevNote ELSE Last(emitted)
    /\ lastTime' = IF emitted = <<>> THEN lastTime ELSE Last(emitted).time
    /\ emitted' = <<>>
    /\ renderFailed' = FALSE
    /\ UNCHANGED <<audioCtx, contexts, now, nextNoteTime, timerID, bpm, beatsPerMeasure,
                   currentBeat, profile, onBeat, soundVars, isPlaying, uiVars,
                   requested, running, starts, restarted, tempoHeld>>

\* The clock advances; it exists once the context does.
TickTo(limit) ==
    /\ audioCtx
    /\ now < limit
    /\ now' = now + 1
    /\ Quiet
    /\ UNCHANGED <<audioCtx, contexts, nextNoteTime, timerID, bpm, beatsPerMeasure, currentBeat,
                   profile, onBeat, timers, soundVars, appVars, uiVars,
                   requested, running, starts, restarted, tempoHeld>>

Tick == TickTo(MaxClock)

\* ------------------------------------------------------ setCustomSounds()
\* this.audioCtx.decodeAudioData(...) of the fetched data.
Decode(data) == [decodedFrom |-> data]

\* Variant: a failure to decode is not noticed.
decodeBase64Unchecked(data, ok) == Decode(data)

\* decodeBase64(): the decoded buffer, or null when fetching or decoding
\* raised (caught and logged).
decodeBase64(data, ok) == IF ok THEN Decode(data) ELSE NoBuffer

\* A call of setCustomSounds() suspended at an await: pc is the buffer whose
\* decoding it awaits; accentOk (history) is the outcome of the accent's.
Call(id, accentData, beatData, pc, accentOk) ==
    [id |-> id, accentData |-> accentData, beatData |-> beatData, pc |-> pc,
     accentOk |-> accentOk]

\* The call as it is once completed (history): what it was given and which
\* decodings succeeded.
Settled(c, beatOk) ==
    [id |-> c.id, accentData |-> c.accentData, beatData |-> c.beatData,
     accentOk |-> c.accentOk, beatOk |-> beatOk]

\* setCustomSounds(accentData, beatData), up to its first await or, with no
\* data to decode, to its end.
EngineSetCustomSounds(accentData, beatData) ==
    /\ soundCalls < MaxSoundCalls
    /\ soundCalls' = soundCalls + 1
    /\ lastSounds' = [id |-> soundCalls + 1, accentData |-> accentData, beatData |-> beatData]
    /\ LET e == initAudio(Engine(0))
       IN  audioCtx' = e.audioCtx /\ contexts' = e.contexts
    /\ LET c == Call(soundCalls + 1, accentData, beatData, "accent", TRUE)
       IN  IF accentData # NoData
           THEN /\ decoding' = Append(decoding, c)
                /\ UNCHANGED <<customAccentBuffer, customBeatBuffer, settled>>
           ELSE /\ customAccentBuffer' = NoBuffer
                /\ IF beatData # NoData
                   THEN /\ decoding' = Append(decoding, [c EXCEPT !.pc = "beat"])
                        /\ UNCHANGED <<customBeatBuffer, settled>>
                   ELSE /\ customBeatBuffer' = NoBuffer
                        /\ settled' = Settled(c, TRUE)
                        /\ UNCHANGED decoding
    /\ Quiet
    /\ UNCHANGED <<now, nextNoteTime, timerID, bpm, beatsPerMeasure, currentBeat,
                   profile, onBeat, timers,
                   requested, running, starts, restarted, tempoHeld>>

SetCustomSounds(accentData, beatData) ==
    EngineSetCustomSounds(accentData, beatData) /\ UNCHANGED <<appVars, uiVars>>

\* The decoding awaited by the suspended call decoding[k] completes, with
\* success or not, and the call runs on to its next await or to its end.
\* Decodings complete in any order.
DecodeDone(k, ok) ==
    /\ k \in 1..Len(decoding)
    /\ LET c == decoding[k]
       IN  IF c.pc = "accent"
           THEN /\ customAccentBuffer' = decodeBase64(c.accentData, ok)
                /\ IF c.beatData # NoData
                   THEN /\ decoding' = [decoding EXCEPT ![k] = [c EXCEPT !.pc = "beat",
                                                                        !.accentOk = ok]]
                        /\ UNCHANGED <<customBeatBuffer, settled>>
                   ELSE /\ customBeatBuffer' = NoBuffer
                        /\ decoding' = Remove(decoding, k)
                        /\ settled' = Settled([c EXCEPT !.accentOk = ok], TRUE)
           ELSE /\ customBeatBuffer' = decodeBase64(c.beatData, ok)
                /\ decoding' = Remove(decoding, k)
                /\ settled' = Settled(c, ok)
                /\ UNCHANGED customAccentBuffer
    /\ Quiet
    /\ UNCHANGED <<audioCtx, contexts, now, nextNoteTime, timerID, bpm, beatsPerMeasure, currentBeat,
                   profile, onBeat, timers, appVars, uiVars, soundCalls, lastSounds,
                   requested, running, starts, restarted, tempoHeld>>

\* ----------------------------------------------------------------- the app
\* togglePlay(): stop() and setCurrentBeat(0) when playing, start() when not.
TogglePlay ==
    \/ /\ isPlaying
       /\ EngineStop
       /\ displayBeat' = 0
       /\ isPlaying' = FALSE
       /\ UNCHANGED uiVars
    \/ /\ ~isPlaying
       /\ EngineStart
       /\ isPlaying' = TRUE
       /\ UNCHANGED <<displayBeat, uiVars>>

\* updateEngine(), for a built-in profile: setParams() with the app's callback.
UpdateEngine(b, m) == SetParams(b, m, "Digital", AppCallback)

\* ------------------------------------------------------ the app's state
DigitChars == <<"0", "1", "2", "3", "4", "5", "6", "7", "8", "9">>
IsDigit(c) == \E d \in 1..10 : DigitChars[d] = c
DigitValue(c) == (CHOOSE d \in 1..10 : DigitChars[d] = c) - 1

\* The value of the longest prefix of decimal digits of s, read after acc.
RECURSIVE DigitPrefix(_, _)
DigitPrefix(s, acc) ==
    IF s # <<>> /\ IsDigit(Head(s))
    THEN DigitPrefix(Tail(s), 10 * acc + DigitValue(Head(s)))
    ELSE acc

RECURSIVE TrimStart(_)
TrimStart(s) == IF s # <<>> /\ Head(s) = " " THEN TrimStart(Tail(s)) ELSE s

\* parseInt(s, 10): leading white space is skipped, a sign is taken, then the
\* longest prefix of digits is read; NaN when there is no digit to read.
ParseInt(s) ==
    LET t == TrimStart(s)
        negative == t # <<>> /\ Head(t) = "-"
        signed == t # <<>> /\ Head(t) \in {"-", "+"}
        digits == IF signed THEN Tail(t) ELSE t
    IN  IF digits = <<>> \/ ~IsDigit(Head(digits)) THEN NaN
        ELSE IF negative THEN 0 - DigitPrefix(digits, 0)
        ELSE DigitPrefix(digits, 0)

\* useState(() => saved ? parseInt(saved, 10) : 60): null and the empty
\* string are falsy.
RestoredBpm(saved) ==
    IF saved.present /\ saved.text # <<>> THEN ParseInt(saved.text) ELSE 60

\* Arithmetic of JavaScript numbers, NaN included.
JsAdd(a, b) == IF a = NaN \/ b = NaN THEN NaN ELSE a + b
MathMin(a, b) == IF a = NaN \/ b = NaN THEN NaN ELSE IF a < b THEN a ELSE b
MathMax(a, b) == IF a = NaN \/ b = NaN THEN NaN ELSE IF a > b THEN a ELSE b

\* Math.min(MAX_BPM, Math.max(MIN_BPM, x))
Clamp(x) == MathMin(MAX_BPM, MathMax(MIN_BPM, x))

\* Math.round(MIN_BPM + (angle / 360 * BPM_RANGE)); Math.round(x) is
\* floor(x + 1/2).
TapBpm(angle) == (2 * (360 * MIN_BPM + angle * BPM_RANGE) + 360) \div 720

\* accentOn ? activeSignature.beats : 99999
PerMeasure(u) == IF u.accentOn THEN u.beats ELSE AccentOff

\* A run of updateEngine() suspended at await setCustomSounds(...): the call
\* it awaits and the values of the render it was created in.
Update(call, u) ==
    [call |-> call, bpm |-> u.bpm, perMeasure |-> PerMeasure(u), profile |-> u.profile]

\* updateEngine() as run by the effect of a render with state u: setParams()
\* at once for a built-in profile; for a custom one setCustomSounds() with the
\* profile's recordings, and setParams() once that call has completed.
UpdateEngineFor(u) ==
    IF u.profile = "Digital"
    THEN /\ EngineSetParams(u.bpm, PerMeasure(u), "Digital", AppCallback)
         /\ UNCHANGED updates
    ELSE /\ EngineSetCustomSounds(AccentData(1), BeatData(1))
         /\ updates' = Append(updates, Update(soundCalls + 1, u))
         /\ UNCHANGED <<bpm, beatsPerMeasure, profile, onBeat, requested, tempoHeld>>

\* A state change of the app and the effect that follows its render.
Render(u) ==
    /\ ui' = u
    /\ UpdateEngineFor(u)
    /\ UNCHANGED appVars

\* The app is mounted: the tempo is restored from localStorage and the first
\* effect runs updateEngine().
Mount(saved) ==
    /\ ~ui.mounted
    /\ Render([ui EXCEPT !.mounted = TRUE, !.bpm = RestoredBpm(saved)])

\* handleMove(): a drag of the dial by bpmChange; setBpm() only if the tempo
\* changes (nextBpm !== bpm, and React keeps a state that is the same value).
DialDrag(bpmChange) ==
    /\ ui.mounted
    /\ LET nextBpm == Clamp(JsAdd(ui.bpm, bpmChange))
       IN  /\ nextBpm # ui.bpm
           /\ Render([ui EXCEPT !.bpm = nextBpm])

\* onEnd(): a tap on the dial at an angle sets the tempo of that angle.
DialTap(angle) ==
    /\ ui.mounted
    /\ LET nextBpm == Clamp(TapBpm(angle))
       IN  /\ nextBpm # ui.bpm
           /\ Render([ui EXCEPT !.bpm = nextBpm])

\* setAccentOn(!accentOn)
ToggleAccent ==
    /\ ui.mounted
    /\ Render([ui EXCEPT !.accentOn = ~ui.accentOn])

\* setActiveSignature(sig)
SelectSignature(beats) ==
    /\ ui.mounted
    /\ beats # ui.beats
    /\ Render([ui EXCEPT !.beats = beats])

\* setActiveProfileId(id)
SelectProfile(p) ==
    /\ ui.mounted
    /\ p # ui.profile
    /\ Render([ui EXCEPT !.profile = p])

\* The suspended runs of updateEngine() whose setCustomSounds() call has
\* completed: they resume before anything else happens.
Resumable == {j \in 1..Len(updates) : \A k \in 1..Len(decoding) : decoding[k].id # updates[j].call}

\* A suspended run of updateEngine() resumes: setParams() with the values of
\* its own render.
UpdateResumes(j) ==
    /\ j \in Resumable
    /\ \A i \in Resumable : j <= i
    /\ EngineSetParams(updates[j].bpm, updates[j].perMeasure, updates[j].profile, AppCallback)
    /\ updates' = Remove(updates, j)
    /\ UNCHANGED <<ui, appVars>>

\* ------------------------------------------------------- specifications
Next ==
    \/ Start
    \/ Stop
    \/ \E b \in Tempos, m \in Measures, p \in Profiles, cb \in Callbacks :
           SetParams(b, m, p, cb)
    \/ \E i \in 1..Len(timers) : Poll(i)
    \/ \E i \in 1..Len(timers) : Notify(i)
    \/ Tick

Spec == Init /\ [][Next]_vars

\* One run: start() is called once, on the engine as constructed, and the
\* clock runs long enough for late polls to catch up several beats at once.
\* setParams() changes tempo and beatsPerMeasure and installs the callback;
\* the profile stays the built-in one (SpecSounds switches it).
FirstStart == starts = 0 /\ Start
RunTick == TickTo(MaxRunClock)

NextRun ==
    \/ FirstStart
    \/ Stop
    \/ \E b \in Tempos, m \in Measures, cb \in Callbacks :
           SetParams(b, m, "Digital", cb)
    \/ \E i \in 1..Len(timers) : Poll(i)
    \/ \E i \in 1..Len(timers) : Notify(i)
    \/ RunTick

SpecRun == Init /\ [][NextRun]_vars

\* setCustomSounds() alone: it is called up to MaxSoundCalls times, each call
\* at any moment, also while earlier ones are decoding, and the decodings
\* complete in any order.
NextDecode ==
    \/ \E a \in {AccentData(soundCalls + 1), NoData},
          b \in {BeatData(soundCalls + 1), NoData} : SetCustomSounds(a, b)
    \/ \E k \in 1..Len(decoding), ok \in BOOLEAN : DecodeDone(k, ok)

SpecDecode == Init /\ [][NextDecode]_vars

\* One run with custom sounds, at the fastest tempo and with no callback
\* installed: setParams() switches profile and beatsPerMeasure,
\* setCustomSounds() is called up to MaxRunSoundCalls times, at any moment, and
\* its decodings complete at any later moment.
SoundTick == TickTo(MaxSoundClock)

NextSounds ==
    \/ FirstStart
    \/ \E m \in Measures, p \in Profiles : SetParams(FastestTempo, m, p, NoCallback)
    \/ /\ soundCalls < MaxRunSoundCalls
       /\ \E a \in {AccentData(soundCalls + 1), NoData},
             b \in {BeatData(soundCalls + 1), NoData} : SetCustomSounds(a, b)
    \/ \E k \in 1..Len(decoding), ok \in BOOLEAN : DecodeDone(k, ok)
    \/ \E i \in 1..Len(timers) : Poll(i)
    \/ SoundTick

SpecSounds == Init /\ [][NextSounds]_vars

\* One run in which setParams() may also clear the callback and the audio API
\* may raise while a beat is rendered.
FaultTick == TickTo(MaxFaultClock)

NextFaults ==
    \/ FirstStart
    \/ Stop
    \/ \E b \in Tempos, m \in Measures, p \in Profiles, cb \in Callbacks \cup {NoCallback} :
           SetParams(b, m, p, cb)
    \/ \E i \in 1..Len(timers) : Poll(i)
    \/ \E i \in 1..Len(timers) : PollRenderFails(i)
    \/ \E i \in 1..Len(timers) : Notify(i)
    \/ FaultTick

SpecFaults == Init /\ [][NextFaults]_vars

\* The whole interface of the engine: start(), stop(), setParams() and
\* setCustomSounds() in any order, over a short time, at the fastest tempo
\* and with no callback installed.
AnySetParams ==
    \E m \in Measures, p \in Profiles : SetParams(FastestTempo, m, p, NoCallback)

AnySetCustomSounds ==
    \E a \in {AccentData(soundCalls + 1), NoData},
       b \in {BeatData(soundCalls + 1), NoData} : SetCustomSounds(a, b)

AnyDecodeDone == \E k \in 1..Len(decoding), ok \in BOOLEAN : DecodeDone(k, ok)

ApiTick == TickTo(MaxApiClock)

NextApi ==
    \/ starts + soundCalls < MaxApiCalls /\ Start
    \/ Stop
    \/ AnySetParams
    \/ starts + soundCalls < MaxApiCalls /\ AnySetCustomSounds
    \/ AnyDecodeDone
    \/ \E i \in 1..Len(timers) : Poll(i)
    \/ ApiTick

SpecApi == Init /\ [][NextApi]_vars

\* The app: the engine is driven by togglePlay() and updateEngine() only.
AppTick == TickTo(MaxAppClock)

NextApp ==
    \/ TogglePlay
    \/ \E b \in Tempos, m \in Measures : UpdateEngine(b, m)
    \/ \E i \in 1..Len(timers) : Poll(i)
    \/ \E i \in 1..Len(timers) : Notify(i)
    \/ AppTick

SpecApp == Init /\ [][NextApp]_vars

\* The app's settings: it is mounted with any of the saved items, then tempo,
\* signature, accent and profile are changed in any order while the decodings
\* started by earlier changes complete in any order.  setCustomSounds() is
\* called at most MaxSoundCalls times.
UiBeats == {3, 4}

\* A suspended run that can resume does so before the next event is handled.
Idle == Resumable = {}

NextUi ==
    \/ \E j \in 1..Len(updates) : UpdateResumes(j)
    \/ Idle /\ \E saved \in Saved : Mount(saved)
    \/ Idle /\ \E bpmChange \in DragChanges : DialDrag(bpmChange)
    \/ Idle /\ \E angle \in Angles : DialTap(angle)
    \/ Idle /\ ToggleAccent
    \/ Idle /\ \E beats \in UiBeats : SelectSignature(beats)
    \/ Idle /\ \E p \in Profiles : SelectProfile(p)
    \/ Idle /\ AnyDecodeDone

SpecUi == Init /\ [][NextUi]_vars

\* A run under a fair host: the clock of the context keeps advancing (up to
\* MaxLiveClock) and a poll timer that is due is eventually fired by the event
\* loop, while stop() may be called at any moment and setParams() may raise
\* the tempo from the constructor's to the fastest, the other parameters
\* staying as they are.
LiveTick == TickTo(MaxLiveClock)
AnyPoll == \E i \in 1..Len(timers) : Poll(i)

NextLive ==
    \/ FirstStart
    \/ Stop
    \/ SetParams(FastestTempo, beatsPerMeasure, profile, onBeat)
    \/ AnyPoll
    \/ LiveTick

SpecLive == Init /\ [][NextLive]_vars /\ WF_vars(LiveTick) /\ WF_vars(AnyPoll)

\* ------------------------------------------------------------- properties
PendingPolls == {i \in 1..Len(timers) : timers[i].kind = "poll"}

\* The notes of the current run that the last step can be compared with: the
\* note before the last step, if any, followed by the notes of the last step.
NoteSeq == IF prevNote = None THEN emitted ELSE <<prevNote>> \o emitted

\* C1: over any sequence of start(), stop(), setParams() and poll firings
\* there is never more than one pending poll task.
OnePollTask == Cardinality(PendingPolls) <= 1

\* C2: after stop() returns, and until the next start(), no poll task is
\* pending and no further note is handed to the renderer.
StopHalts == ~running => (PendingPolls = {} /\ emitted = <<>>)

\* C3: start() called while the engine is Running leaves currentBeat and
\* nextNoteTime unchanged and emits no note.
DoubleStartNoOp ==
    [][(running /\ Start) =>
           (currentBeat' = currentBeat /\ nextNoteTime' = nextNoteTime /\ emitted' = <<>>)]_vars

\* C4, as claimed: every note handed to the renderer has a target time later
\* than the clock reading at the moment of scheduling, however late the poll.
NeverLate == \A k \in 1..Len(emitted) : emitted[k].time > emitted[k].at

\* C4, amended: a note handed to the renderer by start(), or by a poll that
\* runs less than the schedule-ahead window minus the poll interval after it
\* fell due, has a target time later than the clock reading at scheduling.
NeverLateWhenPollTimely ==
    \A k \in 1..Len(emitted) :
        emitted[k].late < scheduleAheadTime - lookahead => emitted[k].time > emitted[k].at

\* C4 witness: a poll that ran late, but within the margin, has scheduled a note.
TimelyPollScheduled ==
    /\ running
    /\ emitted # <<>>
    /\ emitted[1].late > 0
    /\ emitted[1].late < scheduleAheadTime - lookahead
    /\ emitted[1].beat > 0

\* C5: beat notifications fire in the order their notes were handed to the
\* renderer: none fires while the notification of an earlier note is pending.
NotifyInOrder == fired # None => ~fired.overtook

\* C6: in a run begun by start() right after stop(), the first note is beat 0
\* at the clock time plus the startup offset, and nothing of an earlier run
\* remains: no poll task of it is pending and no notification of it fires.
RestartIsClean ==
    (running /\ restarted) =>
        /\ \A i \in PendingPolls : ~timers[i].stale
        /\ fired # None => ~fired.stale
        /\ (prevNote = None /\ emitted # <<>>) =>
               (emitted[1].beat = 0 /\ emitted[1].time = emitted[1].at + StartOffset)

\* C7: a beat scheduled while beatsPerMeasure is the "accents disabled" value
\* is never flagged as accent.
AccentOffNeverAccents ==
    \A k \in 1..Len(emitted) : emitted[k].perMeasure = AccentOff => ~emitted[k].isAccent

\* C8: within a run the beat indices of the notes handed to the renderer are
\* 0, 1, 2, ... in that order, one more per note.
BeatIndicesExact ==
    running =>
        \A k \in 1..Len(NoteSeq) :
            NoteSeq[k].beat = (IF prevNote = None THEN 0 ELSE prevNote.beat) + k - 1

\* C8 witness: a late poll has caught up two beats at once, after the tempo
\* was changed during the run.
CatchUpBurst == running /\ ~tempoHeld /\ Len(emitted) >= 2

\* C9: while the tempo is held constant across a run, the target times of
\* consecutively scheduled notes differ by 60/tempo.
HeldTempoSpacing ==
    (running /\ tempoHeld) =>
        \A k \in 1..(Len(NoteSeq) - 1) :
            NoteSeq[k + 1].time - NoteSeq[k].time = SecondsPerBeat(bpm)

\* C9 witness: at a held tempo, a poll that ran after the beat's target time
\* has scheduled it together with the beat after it.
HeldTempoLatePoll ==
    /\ running /\ tempoHeld /\ prevNote # None
    /\ Len(emitted) >= 2
    /\ emitted[1].at > emitted[1].time

\* C10, as claimed: the first note scheduled after a tempo change is spaced
\* from its predecessor by the new inter-beat duration.
NewTempoSpacesNextNote ==
    \A k \in 1..(Len(NoteSeq) - 1) :
        NoteSeq[k + 1].time - NoteSeq[k].time = SecondsPerBeat(NoteSeq[k + 1].bpm)

\* C10, amended: every note is spaced from its predecessor by the inter-beat
\* duration of the tempo in effect when the predecessor was scheduled, so the
\* first note scheduled after a tempo change keeps the old spacing and the
\* note after it is the first to be spaced by the new one.
SpacingSetAtPredecessor ==
    \A k \in 1..(Len(NoteSeq) - 1) :
        NoteSeq[k + 1].time - NoteSeq[k].time = SecondsPerBeat(NoteSeq[k].bpm)

\* C10 witness: the tempo was changed between two notes, and both the first
\* note after the change and the one after it have been scheduled.
TempoChangedBetweenNotes ==
    /\ running /\ Len(NoteSeq) >= 3
    /\ NoteSeq[1].bpm # NoteSeq[2].bpm
    /\ NoteSeq[2].bpm = NoteSeq[3].bpm

\* start() was never called while the engine was running: it was called at
\* most once, or the second time right after stop().
NeverStartedTwice == starts <= 1 \/ restarted

\* C11, first part: no note handed to the renderer has the target time of the
\* note handed to it last before, whether of the same run or of an earlier
\* one.  Stated for the uses of the engine in which start() is never called
\* while it is running, where the claim is least demanding.
NoSharedTargetTime ==
    NeverStartedTwice => \A k \in 1..Len(emitted) : emitted[k].time # lastTime

\* C11, second part: within a run target times and beat indices are strictly
\* increasing from each note to the next.
RunStrictlyIncreasing ==
    running =>
        \A k \in 1..(Len(NoteSeq) - 1) :
            /\ NoteSeq[k].time < NoteSeq[k + 1].time
            /\ NoteSeq[k].beat < NoteSeq[k + 1].beat

\* C11: over any sequence of start(), stop(), setParams() and poll firings no
\* two notes handed to the renderer have the same target time, and within a
\* run target times increase strictly together with the beat index.
TargetTimesDistinct == NoSharedTargetTime /\ RunStrictlyIncreasing

\* C12: a beat is flagged accent if and only if its index is a multiple of
\* the beatsPerMeasure in effect when it is scheduled.
AccentIffMultiple ==
    \A k \in 1..Len(emitted) :
        emitted[k].isAccent <=> (emitted[k].beat % beatsPerMeasure = 0)

\* C12 witness: with two beats per measure, beat 2 has been scheduled as an
\* accent right after beat 1, which was not one.
AccentAfterPlainBeat ==
    /\ running /\ beatsPerMeasure = 2
    /\ prevNote # None /\ prevNote.beat = 1 /\ ~prevNote.isAccent
    /\ emitted # <<>> /\ emitted[1].beat = 2 /\ emitted[1].isAccent

PendingBeats == {i \in 1..Len(timers) : timers[i].kind = "beat"}

\* C14: a beat notification is armed with the delay max(0, target time - clock
\* at scheduling): it falls due no earlier than the note's target time, and
\* it never fires before the clock has reached that target time.
NotifyAtTarget ==
    /\ \A i \in PendingBeats : timers[i].due >= timers[i].time
    /\ fired # None => now >= fired.time

\* C14 witness: the notification of beat 1, scheduled ahead of time by a poll,
\* fires at the very clock reading of the beat's target time.
NotifiedOnTheBeat == running /\ fired # None /\ fired.beat = 1 /\ now = fired.time

\* C13: every invocation of onBeat by a beat notification completes without
\* raising, also when setParams() has replaced or cleared the callback between
\* the scheduling of the beat and the firing of its notification.
NotifyCompletes == fired # None => ~fired.threw

\* The buffer a custom beat needs.
NeededBuffer(isAccent) == IF isAccent THEN customAccentBuffer ELSE customBeatBuffer

\* C15: with profile Custom, each beat triggers exactly one sound: the accent
\* buffer for an accent and the regular-beat buffer otherwise when that buffer
\* is present, Digital synthesis when it is absent.
CustomBeatOneSound ==
    profile = "Custom" =>
        \A k \in 1..Len(emitted) :
            LET n == emitted[k]
                needed == NeededBuffer(n.isAccent)
            IN  /\ Len(n.sounds) = 1
                /\ needed # NoBuffer =>
                       (n.sounds[1].kind = "custom" /\ n.sounds[1].buffer = needed)
                /\ needed = NoBuffer => n.sounds[1].kind = "digital"

\* C15 witness: with only an accent buffer installed, the accent beat 0 has
\* played it and beat 1, not an accent, has fallen back to Digital synthesis.
AccentBufferOnly ==
    /\ profile = "Custom"
    /\ customAccentBuffer # NoBuffer /\ customBeatBuffer = NoBuffer
    /\ prevNote # None /\ prevNote.isAccent /\ prevNote.sounds[1].kind = "custom"
    /\ emitted # <<>> /\ ~emitted[1].isAccent /\ emitted[1].sounds[1].kind = "digital"

\* C16: when rendering a beat raises, the run goes on: the poll is re-armed
\* (a poll task is pending under the handle kept in timerID).
RenderFailureContained ==
    renderFailed =>
        /\ timerID # Null
        /\ \E i \in PendingPolls : timers[i].id = timerID /\ timers[i].due = now + lookahead

\* The sources of a beat rendered with the given profile.
SoundsFor(p, isAccent) ==
    IF p = "Custom" /\ NeededBuffer(isAccent) # NoBuffer
    THEN <<[kind |-> "custom", buffer |-> NeededBuffer(isAccent), freq |-> 0]>>
    ELSE <<[kind |-> "digital", buffer |-> NoBuffer, freq |-> IF isAccent THEN 1000 ELSE 600]>>

\* C17: every note is rendered with the beatsPerMeasure and the profile of one
\* setParams() call, the last one completed before the note is scheduled.
ParamsOfLastCall ==
    \A k \in 1..Len(emitted) :
        /\ emitted[k].perMeasure = requested.beatsPerMeasure
        /\ emitted[k].isAccent = IsAccent(emitted[k].beat, requested.beatsPerMeasure)
        /\ emitted[k].sounds = SoundsFor(requested.profile, emitted[k].isAccent)

\* C17 witness: setParams() changed beatsPerMeasure and profile between two
\* notes, and the note after the change is rendered differently.
ParamsChangedBetweenNotes ==
    /\ running /\ prevNote # None /\ emitted # <<>>
    /\ prevNote.perMeasure # emitted[1].perMeasure
    /\ prevNote.sounds[1].kind = "custom"
    /\ emitted[1].sounds[1].kind = "digital"
    /\ profile = "Digital" /\ customBeatBuffer # NoBuffer

\* The buffers that may be installed for the given data once its call is
\* complete: none for no data, the decoded data or none (decoding failed).
InstalledFor(data) == IF data = NoData THEN {NoBuffer} ELSE {NoBuffer, Decode(data)}

\* C18: once two calls of setCustomSounds() have completed, overlapping or
\* not, the installed buffers are those of the later call, never one decoded
\* from the data of the earlier call.
LaterCallWins ==
    (soundCalls >= 2 /\ decoding = <<>>) =>
        /\ customAccentBuffer \in InstalledFor(lastSounds.accentData)
        /\ customBeatBuffer \in InstalledFor(lastSounds.beatData)

\* The buffer installed for the given data by a call on its own.
Outcome(data, ok) == IF data # NoData /\ ok THEN Decode(data) ELSE NoBuffer

\* C19: a setCustomSounds() call not overlapped by another completes also
\* when a decoding fails; the buffer whose decoding failed is absent, the
\* other buffer is the one decoded from its data, and a custom beat needing an
\* absent buffer is rendered by Digital synthesis.
DecodeFailureNonFatal ==
    (soundCalls = 1 /\ settled # NoCall) =>
        /\ customAccentBuffer = Outcome(settled.accentData, settled.accentOk)
        /\ customBeatBuffer = Outcome(settled.beatData, settled.beatOk)
        /\ \A k \in 1..Len(emitted) :
               (profile = "Custom" /\ NeededBuffer(emitted[k].isAccent) = NoBuffer) =>
                   emitted[k].sounds = playDigital(emitted[k].isAccent)

\* C19 witness: a call has completed whose accent data failed to decode and
\* whose beat data decoded, and an accent beat scheduled afterwards with
\* profile Custom was rendered by Digital synthesis.
FailedAccentFallsBack ==
    /\ soundCalls = 1 /\ settled # NoCall
    /\ settled.accentData # NoData /\ ~settled.accentOk
    /\ settled.beatData # NoData /\ settled.beatOk
    /\ customAccentBuffer = NoBuffer /\ customBeatBuffer = Decode(settled.beatData)
    /\ profile = "Custom"
    /\ emitted # <<>> /\ emitted[1].isAccent /\ emitted[1].sounds[1].kind = "digital"

\* C20: in the app, while the metronome is stopped the displayed beat is 0.
DisplayZeroWhileStopped == ~isPlaying => displayBeat = 0

PollBoundedWork ==
    /\ emitted # <<>> =>
           Len(emitted) <=
               Max(0, emitted[1].at + scheduleAheadTime - emitted[1].time)
                   \div SecondsPerBeat(bpm) + 1
    /\ running =>
           /\ Cardinality(PendingPolls) = 1
           /\ \A i \in PendingPolls : timers[i].id = timerID

\* C23 witness: a poll has caught up two beats at once and re-armed itself.
PollBurstRearmed ==
    /\ running /\ prevNote # None /\ Len(emitted) >= 2
    /\ Cardinality(PendingPolls) = 1
    /\ Last(timers).kind = "poll" /\ Last(timers).due = now + lookahead

\* C24: every note handed to the renderer has a target time before the end of
\* the schedule-ahead window at the clock reading of its scheduling; when a
\* call of scheduler() has finished (its poll timer, armed at this clock
\* reading, is pending) nextNoteTime is at or beyond the end of the window;
\* and start() hands the renderer exactly one note, beat 0.
WindowBound ==
    /\ \A k \in 1..Len(emitted) : emitted[k].time < emitted[k].at + scheduleAheadTime
    /\ (\E i \in PendingPolls : timers[i].due = now + lookahead) =>
           nextNoteTime >= now + scheduleAheadTime
    /\ (running /\ prevNote = None) =>
           (Len(emitted) = 1 /\ emitted[1].beat = 0 /\ emitted[1].at = now)

\* C24 witness: a note has been scheduled one tick before the end of the window.
NoteAtWindowEdge ==
    /\ running /\ emitted # <<>>
    /\ Last(emitted).time = now + scheduleAheadTime - 1
    /\ nextNoteTime >= now + scheduleAheadTime

\* C25: the engine has no audio context before the first start() or
\* setCustomSounds(), has one from then on, and never constructs a second.
OneContext ==
    /\ contexts <= 1
    /\ audioCtx <=> contexts = 1
    /\ contexts = 0 <=> (starts = 0 /\ soundCalls = 0)

\* C25 witness: after a start(), a stop() and a setCustomSounds() call, in
\* any order, the engine has the one context.
ContextReused == contexts = 1 /\ starts >= 1 /\ soundCalls >= 1 /\ ~running

\* C28: setParams() and setCustomSounds(), with the completion of its
\* decodings, leave currentBeat, nextNoteTime, the pending timers and the
\* Running/Stopped state as they are and hand no note to the renderer; stop()
\* leaves tempo, beatsPerMeasure, profile, callback and buffers as they are.
ConfigCallsKeepRun ==
    [][/\ (AnySetParams \/ AnySetCustomSounds \/ AnyDecodeDone) =>
              /\ UNCHANGED <<currentBeat, nextNoteTime, timerID, timers, running>>
              /\ emitted' = <<>>
       /\ Stop =>
              UNCHANGED <<bpm, beatsPerMeasure, profile, onBeat, customAccentBuffer,
                          customBeatBuffer>>]_vars

\* C28 witness: in a run, after the tempo was changed and custom sounds were
\* installed, the poll is pending and the beat count stands where it was.
ConfiguredMidRun ==
    /\ running /\ ~tempoHeld /\ customAccentBuffer # NoBuffer
    /\ PendingPolls # {} /\ currentBeat = 1 /\ emitted = <<>>

\* C21: the tempo held by the engine is always an integer in [1, 240], whether
\* the app restored it from the saved settings or the dial produced it.
TempoInRange == bpm \in MIN_BPM..MAX_BPM

\* C26: once every run of updateEngine() has completed, the engine's tempo,
\* beatsPerMeasure and profile are those of the app's current state.
UpdatesConverge ==
    (ui.mounted /\ updates = <<>> /\ decoding = <<>>) =>
        /\ bpm = ui.bpm
        /\ beatsPerMeasure = PerMeasure(ui)
        /\ profile = ui.profile

\* C27: in a run, with the clock advancing and due polls eventually firing,
\* the beat whose turn it is (currentBeat = k) is eventually handed to the
\* renderer unless stop() is called first; beat 0 is handed over by start()
\* itself, and each beat handed over makes it the turn of the next.  The
\* beats followed are those due within the window of the last clock reading.
EveryBeatHanded ==
    \A k \in 1..MaxLiveBeat :
        (running /\ currentBeat = k /\ nextNoteTime < MaxLiveClock + scheduleAheadTime)
            ~> ((\E j \in 1..Len(emitted) : emitted[j].beat = k) \/ ~running)

\* C27 witness: a poll has handed beat 2 to the renderer at the last clock
\* reading, after beats 0 and 1.
SecondBeatHanded ==
    /\ running /\ now = MaxLiveClock /\ prevNote # None /\ prevNote.beat = 1
    /\ emitted # <<>> /\ emitted[1].beat = 2
====
